---- MODULE Spec2Model ----
(***************************************************************************)
(* A model of src/index.js of crx-fetch: the top-level flow (main), the    *)
(* container header stripper (extractCrxToFolder) and the archive          *)
(* extractor (parseZipCentralDirectory), over byte buffers and a small     *)
(* file system.                                                            *)
(*                                                                         *)
(* Bytes are numbers 0..255.  A buffer is a record                         *)
(*     [data |-> <<bytes>>, pad |-> n, base |-> k]                         *)
(* standing for the bytes of data followed by n zero bytes, seen from      *)
(* offset k on (Buffer.slice gives a view of the same memory).  Offsets    *)
(* are 0-based as in the source.                                           *)
(***************************************************************************)
EXTENDS Integers, Sequences, FiniteSets, TLC

(***************************************************************************)
(* Small arithmetic helpers.                                               *)
(***************************************************************************)
Min(a, b) == IF a < b THEN a ELSE b

Max(a, b) == IF a > b THEN a ELSE b

SetMax(S) == CHOOSE x \in S : \A y \in S : y <= x

SetMin(S) == CHOOSE x \in S : \A y \in S : x <= y

Zeros(n) == [i \in 1..n |-> 0]

\* The element of a set of one element.  {F(x) : x \in {e}} is F of the
\* value of e, with e worked out once.
TheOne(S) == CHOOSE r \in S : TRUE

\* The least k with 2^k >= n.  A loop of at most n turns is written as an
\* operator that makes up to 2^k turns, two halves of up to 2^(k-1) each.
RECURSIVE Log2(_)
Log2(n) == IF n <= 1 THEN 0 ELSE 1 + Log2((n + 1) \div 2)

(***************************************************************************)
(* Buffers.                                                                *)
(***************************************************************************)
\* buffer.length
BufLen(b) == Len(b.data) + b.pad - b.base

\* buffer[i], for 0 <= i < buffer.length
ByteAt(b, i) ==
  IF b.base + i < Len(b.data) THEN b.data[b.base + i + 1] ELSE 0

\* buffer.slice(start) as a view of the same bytes (start <= length)
SliceFrom(b, start) == [b EXCEPT !.base = @ + Min(start, BufLen(b))]

\* The bytes of buffer.slice(start, end): both ends are clamped to the
\* buffer's length, and an empty range gives no bytes.
SliceBytes(b, start, end) ==
  LET s == Min(start, BufLen(b))
      e == Min(end, BufLen(b))
  IN  [i \in 1..(IF e > s THEN e - s ELSE 0) |-> ByteAt(b, s + i - 1)]

\* The value a read outside the buffer stands for: Node throws a RangeError.
Oob == -1

\* A 32-bit value of 2^29 or more is kept as 2^29.  The code only compares
\* such values with the three signatures (all below 2^29) and adds them to
\* offsets that it compares with, or reads at, a buffer length far below
\* 2^29, so no outcome depends on the exact value.
Sat == 536870912

\* buffer.readUInt16LE(off)
ReadUInt16LE(b, off) ==
  IF off < 0 \/ off + 2 > BufLen(b) THEN Oob
  ELSE ByteAt(b, off) + 256 * ByteAt(b, off + 1)

\* buffer.readUInt32LE(off)
ReadUInt32LE(b, off) ==
  IF off < 0 \/ off + 4 > BufLen(b) THEN Oob
  ELSE IF ByteAt(b, off + 3) >= 32 THEN Sat
  ELSE ByteAt(b, off) + 256 * ByteAt(b, off + 1)
       + 65536 * ByteAt(b, off + 2) + 16777216 * ByteAt(b, off + 3)

(***************************************************************************)
(* Strings.  buffer.toString("utf8", start, end) decodes the bytes as      *)
(* UTF-8: every well-formed sequence is kept, and every maximal ill-formed *)
(* part (a byte that can start nothing, or a lead byte with the            *)
(* continuation bytes that do fit it) becomes one U+FFFD.  A string is     *)
(* kept here as its UTF-8 bytes, the form in which the fs calls pass it    *)
(* on, so U+FFFD is EF BF BD.                                              *)
(***************************************************************************)
Replacement == <<239, 191, 189>>

\* The continuation bytes a lead byte asks for (0: the byte is no lead), and
\* the range its first continuation byte must lie in.
Utf8Need(b) ==
  IF b \in 194..223 THEN 1
  ELSE IF b \in 224..239 THEN 2
  ELSE IF b \in 240..244 THEN 3
  ELSE 0

Utf8Lower(b) == IF b = 224 THEN 160 ELSE IF b = 240 THEN 144 ELSE 128

Utf8Upper(b) == IF b = 237 THEN 159 ELSE IF b = 244 THEN 143 ELSE 191

\* How many of the bytes after the lead byte at i continue its sequence.
Utf8Accepted(bytes, i) ==
  LET fits(j) == /\ i + j <= Len(bytes)
                 /\ IF j = 1
                      THEN bytes[i + j] \in Utf8Lower(bytes[i])..Utf8Upper(bytes[i])
                      ELSE bytes[i + j] \in 128..191
  IN  Cardinality({j \in 1..Utf8Need(bytes[i]) : \A m \in 1..j : fits(m)})

\* The first index at or after i of a byte that is not ASCII; Len(bytes) + 1
\* when there is none.
NextNonAscii(bytes, i) ==
  LET at == {j \in i..Len(bytes) : bytes[j] >= 128}
  IN  IF at = {} THEN Len(bytes) + 1 ELSE SetMin(at)

\* One turn of the decoder, from index s.pos with s.out decoded: the ASCII
\* bytes up to the next other byte as they are, then the sequence that
\* starts there, whole or replaced.
Utf8Step(bytes, s) ==
  TheOne({
    IF j > Len(bytes)
      THEN [pos |-> j, out |-> s.out \o SubSeq(bytes, s.pos, Len(bytes))]
      ELSE TheOne({
             IF Utf8Need(bytes[j]) > 0 /\ got = Utf8Need(bytes[j])
               THEN [pos |-> j + got + 1,
                     out |-> s.out \o SubSeq(bytes, s.pos, j + got)]
               ELSE [pos |-> j + got + 1,
                     out |-> s.out \o SubSeq(bytes, s.pos, j - 1)
                             \o Replacement] :
               got \in {Utf8Accepted(bytes, j)}}) :
      j \in {NextNonAscii(bytes, s.pos)}})

RECURSIVE Utf8Loop(_, _, _)
Utf8Loop(bytes, s, k) ==
  IF s.pos > Len(bytes) THEN s
  ELSE IF k = 0 THEN Utf8Step(bytes, s)
  ELSE TheOne({Utf8Loop(bytes, t, k - 1) : t \in {Utf8Loop(bytes, s, k - 1)}})

\* The decoding of bytes from index i on; a turn takes a byte or more.
Utf8From(bytes, i) ==
  TheOne({Utf8Loop(bytes, s, Log2(Len(bytes) + 1)) :
            s \in {[pos |-> i, out |-> <<>>]}}).out

\* buffer.toString("utf8", start, end)
ToStringUtf8(b, start, end) ==
  TheOne({Utf8From(bytes, 1) : bytes \in {SliceBytes(b, start, end)}})

(***************************************************************************)
(* Paths.  A name is a string; a path is a sequence of segments (each a    *)
(* non-empty string) relative to the working directory.                    *)
(***************************************************************************)
Slash == 47

Dot == 46

DotSeg == <<Dot>>

DotDotSeg == <<Dot, Dot>>

\* filename.endsWith("/")
EndsWithSlash(name) == Len(name) > 0 /\ name[Len(name)] = Slash

\* The first index at or after i of a separator; Len(name) + 1 when there
\* is none.
NextSlash(name, i) ==
  LET at == {j \in i..Len(name) : name[j] = Slash}
  IN  IF at = {} THEN Len(name) + 1 ELSE SetMin(at)

\* name.split("/"): the segments between separators, empty ones included.
\* A turn takes the segment that starts at s.pos and its separator.
SplitStep(name, s) ==
  TheOne({[pos |-> j + 1, segs |-> Append(s.segs, SubSeq(name, s.pos, j - 1))] :
            j \in {NextSlash(name, s.pos)}})

RECURSIVE SplitLoop(_, _, _)
SplitLoop(name, s, k) ==
  IF s.pos > Len(name) + 1 THEN s
  ELSE IF k = 0 THEN SplitStep(name, s)
  ELSE TheOne({SplitLoop(name, t, k - 1) : t \in {SplitLoop(name, s, k - 1)}})

SplitFrom(name, i) ==
  TheOne({SplitLoop(name, s, Log2(Len(name) + 2)) :
            s \in {[pos |-> i, segs |-> <<>>]}}).segs

Split(name) == TheOne({SplitFrom(n, 1) : n \in {name}})

\* path.normalize of a relative path: empty and "." segments vanish, ".."
\* removes the segment before it, and is kept where there is none to remove.
\* A turn takes the segment s.i, s.res being what the ones before it gave.
NormalizeStep(segs, s) ==
  IF segs[s.i] = <<>> \/ segs[s.i] = DotSeg THEN [s EXCEPT !.i = @ + 1]
  ELSE IF segs[s.i] = DotDotSeg
    THEN IF Len(s.res) > 0 /\ s.res[Len(s.res)] # DotDotSeg
           THEN [i |-> s.i + 1, res |-> SubSeq(s.res, 1, Len(s.res) - 1)]
           ELSE [i |-> s.i + 1, res |-> Append(s.res, DotDotSeg)]
  ELSE [i |-> s.i + 1, res |-> Append(s.res, segs[s.i])]

RECURSIVE NormalizeLoop(_, _, _)
NormalizeLoop(segs, s, k) ==
  IF s.i > Len(segs) THEN s
  ELSE IF k = 0 THEN NormalizeStep(segs, s)
  ELSE TheOne({NormalizeLoop(segs, t, k - 1) :
         t \in {NormalizeLoop(segs, s, k - 1)}})

NormalizeFrom(segs, i, res) ==
  TheOne({NormalizeLoop(segs, s, Log2(Len(segs) + 1)) :
            s \in {[i |-> i, res |-> res]}}).res

\* path.join(folder, name), folder already a path
PathJoin(folder, name) ==
  TheOne({NormalizeFrom(segs, 1, <<>>) : segs \in {folder \o Split(name)}})

\* path.dirname(p)
PathDirname(p) == IF Len(p) = 0 THEN p ELSE SubSeq(p, 1, Len(p) - 1)

\* The length of p written as a string: the segments and the separators
\* between them ("." for the empty path).
RECURSIVE SegmentsLength(_, _, _)
SegmentsLength(p, from, to) ==
  IF from > to THEN 0
  ELSE IF from = to THEN Len(p[from])
  ELSE TheOne({SegmentsLength(p, from, mid) + SegmentsLength(p, mid + 1, to) :
         mid \in {(from + to) \div 2}})

PathLength(p) ==
  IF Len(p) = 0 THEN 1 ELSE SegmentsLength(p, 1, Len(p)) + Len(p) - 1

\* A path with a NUL byte is refused by every fs call.
HasNul(p) == \E n \in 1..Len(p) : \E j \in 1..Len(p[n]) : p[n][j] = 0

(***************************************************************************)
(* The file system: a function from the paths that exist to nodes.  The    *)
(* program runs in the directory Cwd (given from the root), and a path     *)
(* that leaves it through ".." is resolved from there: CanonicalPath gives *)
(* the one path, relative to the working directory, that names the same    *)
(* node.  The working directory and the directories above it always exist; *)
(* nothing else does before the first run.  A file's content is kept the   *)
(* way a buffer is: its bytes are data followed by pad zero bytes.  The     *)
(* system calls refuse a path of PathMax bytes or more and a segment of     *)
(* more than NameMax bytes (ENAMETOOLONG).                                 *)
(***************************************************************************)
\* "/w/cwd"
Cwd == << <<119>>, <<99, 119, 100>> >>

NameMax == 255

PathMax == 4096

DirNode == [kind |-> "dir", data |-> <<>>, pad |-> 0]

FileNode(c) == [kind |-> "file", data |-> c.data, pad |-> c.pad]

\* The content that a sequence of bytes, and that a whole buffer, makes.
AsContent(bytes) == [data |-> bytes, pad |-> 0]

BufferContent(b) ==
  [data |-> SubSeq(b.data, b.base + 1, Len(b.data)),
   pad |-> Min(b.pad, BufLen(b))]

OnlyDotDot(p) == \A i \in 1..Len(p) : p[i] = DotDotSeg

\* p (normalized: its ".." segments come first) as the kernel resolves it
\* from the working directory, written relative to the working directory.
AbsolutePath(p) ==
  LET ups == Cardinality({n \in 1..Len(p) : p[n] = DotDotSeg})
  IN  SubSeq(Cwd, 1, Max(0, Len(Cwd) - ups)) \o SubSeq(p, ups + 1, Len(p))

RelativePath(abs) ==
  LET common == SetMax({c \in 0..Min(Len(abs), Len(Cwd)) :
                          SubSeq(abs, 1, c) = SubSeq(Cwd, 1, c)})
  IN  [n \in 1..(Len(Cwd) - common) |-> DotDotSeg]
      \o SubSeq(abs, common + 1, Len(abs))

CanonicalPath(p) ==
  TheOne({RelativePath(abs) : abs \in {TheOne({AbsolutePath(q) : q \in {p}})}})

IsDir(f, p) ==
  \E q \in {CanonicalPath(p)} :
    OnlyDotDot(q) \/ (q \in DOMAIN f /\ f[q].kind = "dir")

IsFile(f, p) ==
  \E q \in {CanonicalPath(p)} : q \in DOMAIN f /\ f[q].kind = "file"

\* The segments of p that are longer than a name may be.
TooLongSegments(p) == {n \in 1..Len(p) : Len(p[n]) > NameMax}

\* The ancestors of p, and p, that the kernel can walk to: those before the
\* first segment that is too long.
Prefixes(p) ==
  LET n == IF TooLongSegments(p) = {} THEN Len(p)
           ELSE SetMin(TooLongSegments(p)) - 1
  IN  {SubSeq(p, 1, m) : m \in 1..n}

\* f with the directories of new added.
WithDirectories(f, new) ==
  [q \in DOMAIN f \cup new |-> IF q \in new THEN DirNode ELSE f[q]]

\* MkdirAt without "recursive": an existing directory is an error too
MkdirExisting(f, p, slash) ==
  IF \/ HasNul(p)
     \/ PathLength(p) + slash >= PathMax
     \/ CanonicalPath(p) \in DOMAIN f
     \/ \E q \in Prefixes(p) : IsFile(f, q)
    THEN [ok |-> FALSE, fs |-> f]
    ELSE [ok |-> TooLongSegments(p) = {},
          fs |-> TheOne({WithDirectories(f, new) :
                   new \in {{CanonicalPath(q) :
                              q \in {r \in Prefixes(p) : ~IsDir(f, r)}}}})]

\* fs.mkdirSync(p, {recursive: true}), p written with slash (0 or 1)
\* separators at its end.  It fails, creating nothing, when p holds a NUL
\* byte, is too long as a whole, or when p or one of its ancestors is a
\* file.  Otherwise every missing directory on the way is created and an
\* existing one is left as it is, up to the first segment that is too long:
\* there the call fails, with the directories before it made.
MkdirAt(f, p, slash) ==
  IF \/ HasNul(p)
     \/ PathLength(p) + slash >= PathMax
     \/ \E q \in Prefixes(p) : IsFile(f, q)
    THEN [ok |-> FALSE, fs |-> f]
    ELSE [ok |-> TooLongSegments(p) = {},
          fs |-> TheOne({WithDirectories(f, new) :
                   new \in {{CanonicalPath(q) :
                              q \in {r \in Prefixes(p) : ~IsDir(f, r)}}}})]

MkdirP(f, p, slash) == TheOne({MkdirAt(f, q, slash) : q \in {p}})

\* fs.writeFileSync(p, c): fails when p holds a NUL byte, is too long as a
\* whole or in a segment, is a directory, or has a parent that is not one;
\* otherwise p holds exactly c, whatever it held before.
WriteAt(f, p, q, c) ==
  IF \/ HasNul(p)
     \/ PathLength(p) >= PathMax
     \/ TooLongSegments(p) # {}
     \/ IsDir(f, q)
     \/ ~IsDir(f, PathDirname(q))
    THEN [ok |-> FALSE, fs |-> f]
    ELSE [ok |-> TRUE,
          fs |-> [r \in DOMAIN f \cup {q} |->
                    IF r = q THEN FileNode(c) ELSE f[r]]]

WriteFile(f, p, c) ==
  TheOne({WriteAt(f, r, CanonicalPath(r), c) : r \in {p}})

(***************************************************************************)
(* zlib.inflateRawSync: a deflate stream (RFC 1951) without a wrapper.     *)
(* The stream is a sequence of bits, taken from each byte's low end first, *)
(* and holds blocks: one bit that says the block is the last, two bits of  *)
(* type, and then                                                          *)
(*   type 0: after the bits left in the byte, LEN, its one's complement    *)
(*           NLEN (two bytes each, little-endian) and LEN bytes as they    *)
(*           are;                                                          *)
(*   type 1: symbols in the fixed Huffman codes;                           *)
(*   type 2: the code lengths of two Huffman codes, themselves coded, and  *)
(*           then symbols in those codes;                                  *)
(*   type 3: reserved, an error.                                           *)
(* A symbol below 256 is a byte, 256 ends the block, and one above it is   *)
(* the length of a copy, followed by the distance back to copy from.       *)
(* Input that ends before the last block does is an error ("unexpected end *)
(* of file"); bytes after the last block are ignored.                      *)
(*                                                                         *)
(* inflate is a loop over a state: the mode ("type" before a block,        *)
(* "codelens" while the code lengths of a type 2 block are read, "len"     *)
(* before a symbol, "done", "bad"), the position pos in bits, the output   *)
(* data, whether the block is the last (final), and the codes in use.      *)
(***************************************************************************)
MaxBits == 15

InflateError == [status |-> "error", pos |-> 0, data |-> <<>>]

NumBits(bytes) == 8 * Len(bytes)

\* Bit n of the stream, from 0.
BitAt(bytes, n) == (bytes[(n \div 8) + 1] \div (2 ^ (n % 8))) % 2

\* cnt bits from pos as a number, the first bit lowest (a field), and the
\* first bit highest (a Huffman code).
RECURSIVE BitsAt(_, _, _)
BitsAt(bytes, pos, cnt) ==
  IF cnt = 0 THEN 0
  ELSE BitAt(bytes, pos) + 2 * BitsAt(bytes, pos + 1, cnt - 1)

RECURSIVE CodeAt(_, _, _)
CodeAt(bytes, pos, cnt) ==
  IF cnt = 0 THEN 0
  ELSE 2 * CodeAt(bytes, pos, cnt - 1) + BitAt(bytes, pos + cnt - 1)

\* A Huffman code is given by the lengths of its symbols' codes: lens[s + 1]
\* for symbol s, 0 for a symbol that is not used.
LenCount(lens, l) == Cardinality({s \in 1..Len(lens) : lens[s] = l})

MaxLength(lens) == SetMax({0} \cup {lens[s] : s \in 1..Len(lens)})

\* What is left of the code space after the codes of length l or less:
\* negative when the lengths are over-subscribed, 0 after MaxBits when they
\* are complete.
RECURSIVE CodeSpaceLeft(_, _)
CodeSpaceLeft(lens, l) ==
  IF l = 0 THEN 1 ELSE 2 * CodeSpaceLeft(lens, l - 1) - LenCount(lens, l)

\* The first code of length l of the canonical code.
RECURSIVE FirstCode(_, _)
FirstCode(lens, l) ==
  IF l = 1 THEN 0 ELSE 2 * (FirstCode(lens, l - 1) + LenCount(lens, l - 1))

\* inflate_table: for each length, its first code and its symbols in order.
HuffTable(lens) ==
  [l \in 1..MaxBits |->
     [first |-> FirstCode(lens, l),
      syms |-> SelectSeq([s \in 1..Len(lens) |-> s - 1],
                         LAMBDA s : lens[s + 1] = l)]]

\* The lengths at which the bits at pos are a code of the table.
CodesAt(bytes, pos, table) ==
  {l \in 1..MaxBits :
     /\ pos + l <= NumBits(bytes)
     /\ \E c \in {CodeAt(bytes, pos, l) - table[l].first} :
          c >= 0 /\ c < Len(table[l].syms)}

\* The symbol whose code stands at pos, and the position after it; symbol
\* -1 when the bits there are no code or the input ends within one.
HuffDecode(bytes, pos, table) ==
  TheOne({IF fits = {} THEN [sym |-> -1, pos |-> pos]
          ELSE TheOne({[sym |-> table[l].syms[CodeAt(bytes, pos, l)
                                               - table[l].first + 1],
                        pos |-> pos + l] : l \in {SetMin(fits)}}) :
            fits \in {CodesAt(bytes, pos, table)}})

\* The copy lengths and distances: base value and extra bits of the symbols
\* 257..285 and of the distance symbols 0..29.
LengthBase ==
  <<3, 4, 5, 6, 7, 8, 9, 10, 11, 13, 15, 17, 19, 23, 27, 31, 35, 43, 51, 59,
    67, 83, 99, 115, 131, 163, 195, 227, 258>>

LengthExtra ==
  <<0, 0, 0, 0, 0, 0, 0, 0, 1, 1, 1, 1, 2, 2, 2, 2, 3, 3, 3, 3, 4, 4, 4, 4,
    5, 5, 5, 5, 0>>

DistBase ==
  <<1, 2, 3, 4, 5, 7, 9, 13, 17, 25, 33, 49, 65, 97, 129, 193, 257, 385, 513,
    769, 1025, 1537, 2049, 3073, 4097, 6145, 8193, 12289, 16385, 24577>>

DistExtra ==
  <<0, 0, 0, 0, 1, 1, 2, 2, 3, 3, 4, 4, 5, 5, 6, 6, 7, 7, 8, 8, 9, 9, 10, 10,
    11, 11, 12, 12, 13, 13>>

InflateStart(pos, out) ==
  [mode |-> "type", pos |-> pos, data |-> out, final |-> 0, nlen |-> 0,
   ndist |-> 0, lens |-> <<>>, table |-> <<>>, lencode |-> <<>>,
   distcode |-> <<>>]

InflateBad(s) == [s EXCEPT !.mode = "bad"]

\* The state after a block that ended at pos with the output data.
BlockEnd(s, pos, data) ==
  [s EXCEPT !.mode = IF s.final = 1 THEN "done" ELSE "type",
            !.pos = pos, !.data = data]

\* Type 0: a stored block, from the next byte on.
InflateStored(bytes, s) ==
  TheOne({
    IF at + 4 > Len(bytes) THEN InflateBad(s)
    ELSE TheOne({
           IF len + nlen # 65535 \/ at + 4 + len > Len(bytes) THEN InflateBad(s)
           ELSE BlockEnd(s, 8 * (at + 4 + len),
                         s.data \o SubSeq(bytes, at + 5, at + 4 + len)) :
             len \in {bytes[at + 1] + 256 * bytes[at + 2]},
             nlen \in {bytes[at + 3] + 256 * bytes[at + 4]}}) :
      at \in {(s.pos + 7) \div 8}})

\* Type 1: the fixed codes.
FixedLengths ==
  [n \in 1..288 |-> IF n <= 144 THEN 8 ELSE IF n <= 256 THEN 9
                    ELSE IF n <= 280 THEN 7 ELSE 8]

FixedDistances == [n \in 1..32 |-> 5]

InflateFixed(s) ==
  [s EXCEPT !.mode = "len", !.lencode = HuffTable(FixedLengths),
            !.distcode = HuffTable(FixedDistances)]

\* Type 2.  The order in which the lengths of the code length code come.
CodeLengthOrder ==
  <<16, 17, 18, 0, 8, 7, 9, 6, 10, 5, 11, 4, 12, 3, 13, 2, 14, 1, 15>>

\* The lengths of the code length code: ncode fields of 3 bits from pos on,
\* for the symbols in CodeLengthOrder.
CodeLengthLengths(bytes, pos, ncode) ==
  [n \in 1..19 |->
     TheOne({IF at = {} THEN 0
             ELSE BitsAt(bytes, pos + 3 * (SetMin(at) - 1), 3) :
               at \in {{j \in 1..ncode : CodeLengthOrder[j] = n - 1}}})]

\* The header of a type 2 block: the numbers of literal/length and distance
\* codes and of code length codes, and the code length code, which must be
\* complete.
InflateDynamic(bytes, s) ==
  IF s.pos + 14 > NumBits(bytes) THEN InflateBad(s)
  ELSE TheOne({
    IF nlen > 286 \/ ndist > 30 THEN InflateBad(s)
    ELSE IF s.pos + 14 + 3 * ncode > NumBits(bytes) THEN InflateBad(s)
    ELSE TheOne({
           IF CodeSpaceLeft(codeLens, MaxBits) # 0 THEN InflateBad(s)
           ELSE [s EXCEPT !.mode = "codelens",
                          !.pos = s.pos + 14 + 3 * ncode,
                          !.nlen = nlen, !.ndist = ndist, !.lens = <<>>,
                          !.table = HuffTable(codeLens)] :
             codeLens \in {CodeLengthLengths(bytes, s.pos + 14, ncode)}}) :
      nlen \in {BitsAt(bytes, s.pos, 5) + 257},
      ndist \in {BitsAt(bytes, s.pos + 5, 5) + 1},
      ncode \in {BitsAt(bytes, s.pos + 10, 4) + 4}})

\* The block of type btype whose content starts at s.pos.
InflateBlock(bytes, s, btype) ==
  IF btype = 0 THEN InflateStored(bytes, s)
  ELSE IF btype = 1 THEN InflateFixed(s)
  ELSE IF btype = 2 THEN InflateDynamic(bytes, s)
  ELSE InflateBad(s)

\* Mode "type": the three bits that head a block.
InflateType(bytes, s) ==
  IF s.pos + 3 > NumBits(bytes) THEN InflateBad(s)
  ELSE TheOne({InflateBlock(bytes, t, btype) :
         t \in {[s EXCEPT !.final = BitAt(bytes, s.pos), !.pos = s.pos + 3]},
         btype \in {BitsAt(bytes, s.pos + 1, 2)}})

\* A code that inflate_table accepts for literals and lengths or for
\* distances: complete, or a single code of one bit; for distances also no
\* code at all.
UsableCode(lens) ==
  \E left \in {CodeSpaceLeft(lens, MaxBits)} :
    left = 0 \/ (left > 0 /\ MaxLength(lens) = 1)

\* All code lengths read: the two codes, lens for literals and lengths
\* (with a code for the end of the block) and dists for distances.
InflateTables(s, lens, dists) ==
  IF lens[257] = 0 THEN InflateBad(s)
  ELSE IF ~UsableCode(lens) THEN InflateBad(s)
  ELSE IF ~(UsableCode(dists) \/ MaxLength(dists) = 0) THEN InflateBad(s)
  ELSE [s EXCEPT !.mode = "len", !.lencode = HuffTable(lens),
                 !.distcode = HuffTable(dists)]

\* The symbol c of the code length code stands for times the value, times
\* being base plus the next extra bits.
ReadRepeat(bytes, s, c, extra, base, value) ==
  IF c.pos + extra > NumBits(bytes) THEN InflateBad(s)
  ELSE TheOne({
         IF Len(s.lens) + times > s.nlen + s.ndist THEN InflateBad(s)
         ELSE [s EXCEPT !.pos = c.pos + extra,
                        !.lens = @ \o [j \in 1..times |-> value]] :
           times \in {base + BitsAt(bytes, c.pos, extra)}})

\* A symbol below 16 is a length, 16 repeats the length before it 3..6
\* times, 17 and 18 give 3..10 and 11..138 zeros.
ReadLength(bytes, s, c) ==
  IF c.sym < 0 THEN InflateBad(s)
  ELSE IF c.sym < 16
    THEN [s EXCEPT !.pos = c.pos, !.lens = Append(@, c.sym)]
  ELSE IF c.sym = 16
    THEN IF Len(s.lens) = 0 THEN InflateBad(s)
         ELSE ReadRepeat(bytes, s, c, 2, 3, s.lens[Len(s.lens)])
  ELSE IF c.sym = 17 THEN ReadRepeat(bytes, s, c, 3, 3, 0)
  ELSE ReadRepeat(bytes, s, c, 7, 11, 0)

\* Mode "codelens": the next code length, or the codes once all are read.
ReadLengths(bytes, s) ==
  IF Len(s.lens) = s.nlen + s.ndist
    THEN TheOne({InflateTables(s, lens, dists) :
           lens \in {SubSeq(s.lens, 1, s.nlen)},
           dists \in {SubSeq(s.lens, s.nlen + 1, s.nlen + s.ndist)}})
    ELSE TheOne({ReadLength(bytes, s, c) :
           c \in {HuffDecode(bytes, s.pos, s.table)}})

\* A copy of length bytes from dist bytes back, the distance symbol d read.
\* The distance symbols 30 and 31 have codes in the fixed table and are
\* errors; so is a distance that reaches back before the output's first
\* byte.
InflateCopy(bytes, s, length, d) ==
  IF d.sym < 0 \/ d.sym > 29 THEN InflateBad(s)
  ELSE IF d.pos + DistExtra[d.sym + 1] > NumBits(bytes) THEN InflateBad(s)
  ELSE TheOne({
         IF dist > Len(s.data) THEN InflateBad(s)
         ELSE [s EXCEPT !.pos = d.pos + DistExtra[d.sym + 1],
                        !.data = @ \o [j \in 1..length |->
                                   @[Len(@) - dist + 1 + ((j - 1) % dist)]]] :
           dist \in {DistBase[d.sym + 1]
                     + BitsAt(bytes, d.pos, DistExtra[d.sym + 1])}})

\* What the literal/length symbol l stands for.  The symbols 286 and 287
\* have codes in the fixed table and are errors.
InflateSymbol(bytes, s, l) ==
  IF l.sym < 0 \/ l.sym > 285 THEN InflateBad(s)
  ELSE IF l.sym < 256
    THEN [s EXCEPT !.pos = l.pos, !.data = Append(@, l.sym)]
  ELSE IF l.sym = 256 THEN BlockEnd(s, l.pos, s.data)
  ELSE IF l.pos + LengthExtra[l.sym - 256] > NumBits(bytes) THEN InflateBad(s)
  ELSE TheOne({InflateCopy(bytes, s, length, d) :
         length \in {LengthBase[l.sym - 256]
                     + BitsAt(bytes, l.pos, LengthExtra[l.sym - 256])},
         d \in {HuffDecode(bytes, l.pos + LengthExtra[l.sym - 256],
                           s.distcode)}})

\* Mode "len": the next symbol of the block.
InflateCodes(bytes, s) ==
  TheOne({InflateSymbol(bytes, s, l) :
            l \in {HuffDecode(bytes, s.pos, s.lencode)}})

\* One turn of the loop.
InflateStep(bytes, s) ==
  IF s.mode = "type" THEN InflateType(bytes, s)
  ELSE IF s.mode = "codelens" THEN ReadLengths(bytes, s)
  ELSE InflateCodes(bytes, s)

\* Up to 2^k turns of the loop, until the mode is "done" or "bad".
RECURSIVE InflateLoop(_, _, _)
InflateLoop(bytes, s, k) ==
  IF s.mode \in {"done", "bad"} THEN s
  ELSE IF k = 0 THEN InflateStep(bytes, s)
  ELSE TheOne({InflateLoop(bytes, t, k - 1) :
         t \in {InflateLoop(bytes, s, k - 1)}})

\* The blocks from bit pos on, out being the output of the blocks before.
\* Every turn but the one that ends the reading of code lengths takes a bit
\* or more of the input, so that twice the number of bits is more turns
\* than the loop can make.
InflateFrom(bytes, pos, out) ==
  TheOne({IF s.mode = "done"
            THEN [status |-> "ok", pos |-> s.pos, data |-> s.data]
            ELSE InflateError :
            s \in {TheOne({InflateLoop(bytes, t, Log2(2 * NumBits(bytes) + 2)) :
                             t \in {InflateStart(pos, out)}})}})

InflateRaw(bytes) == TheOne({InflateFrom(b, 0, <<>>) : b \in {bytes}})

(***************************************************************************)
(* Constants of the program.                                               *)
(***************************************************************************)
\* "Cr24"
Magic == <<67, 114, 50, 52>>

\* 0x06054b50, 0x02014b50, 0x04034b50
EocdSig == 101010256

CdSig == 33639248

LhSig == 67324752

\* 65535 bytes of comment and 22 of record: how far back the search goes
EocdWindow == 65557

\* The folder named by the extension id (32 letters of a..p, here
\* "abcdefghijklmnopabcdefghijklmnop"), and the raw copy's file name
\* ("debug.crx"), as paths from the working directory.
OutFolder == << [n \in 1..32 |-> 97 + ((n - 1) % 16)] >>

DebugPath == << <<100, 101, 98, 117, 103, Dot, 99, 114, 120>> >>

(***************************************************************************)
(* Test archives.  An entry is described by a record                       *)
(*   name, method, data : the name, the method and the payload bytes       *)
(*   cdComp             : the compressed size its directory record gives   *)
(*   lhComp             : the two size fields of its local header          *)
(*   lhExtra            : the length of its local header's extra field     *)
(*   lhSig, cdSig       : the two signatures written                       *)
(*   offOff             : what is added to the local header's true offset  *)
(* and laid out the way the source's comments describe the three records.  *)
(***************************************************************************)
U16(v) == <<v % 256, (v \div 256) % 256>>

U32(v) == <<v % 256, (v \div 256) % 256, (v \div 65536) % 256,
            (v \div 16777216) % 256>>

Entry(name, method, data) ==
  [name |-> name, method |-> method, data |-> data, cdComp |-> Len(data),
   lhComp |-> Len(data), lhExtra |-> 0, lhSig |-> LhSig, cdSig |-> CdSig,
   offOff |-> 0]

LocalRecord(e) ==
  U32(e.lhSig) \o U16(20) \o U16(0) \o U16(e.method) \o U16(0) \o U16(0)
  \o U32(0) \o U32(e.lhComp) \o U32(e.lhComp)
  \o U16(Len(e.name)) \o U16(e.lhExtra) \o e.name \o Zeros(e.lhExtra) \o e.data

CentralRecord(e, off) ==
  U32(e.cdSig) \o U16(20) \o U16(20) \o U16(0) \o U16(e.method) \o U16(0)
  \o U16(0) \o U32(0) \o U32(e.cdComp) \o U32(e.cdComp)
  \o U16(Len(e.name)) \o U16(0) \o U16(0) \o U16(0) \o U16(0) \o U32(0)
  \o U32(off + e.offOff) \o e.name

RECURSIVE LocalPart(_, _)
LocalPart(es, i) ==
  IF i > Len(es) THEN <<>> ELSE LocalRecord(es[i]) \o LocalPart(es, i + 1)

RECURSIVE CentralPart(_, _, _)
CentralPart(es, i, off) ==
  IF i > Len(es) THEN <<>>
  ELSE CentralRecord(es[i], off)
       \o CentralPart(es, i + 1, off + Len(LocalRecord(es[i])))

\* a: [entries, comment, total (entries the record claims, as a difference
\* from the real count), cdSizeOff, cdOffOff (the same for the directory's
\* size and offset)]
EocdRecord(a, cdOffset, cdSize) ==
  U32(EocdSig) \o U16(0) \o U16(0) \o U16(Len(a.entries))
  \o U16(Len(a.entries) + a.total) \o U32(cdSize + a.cdSizeOff)
  \o U32(cdOffset + a.cdOffOff) \o U16(Len(a.comment)) \o a.comment

BuildZip(a) ==
  LET loc == LocalPart(a.entries, 1)
      cd == CentralPart(a.entries, 1, 0)
  IN  loc \o cd \o EocdRecord(a, Len(loc), Len(cd))

Archive(es) == [entries |-> es, comment |-> <<>>, total |-> 0, cdSizeOff |-> 0,
                cdOffOff |-> 0]

\* c: [magic, version, lenA, lenB (the length fields of the header), gap
\* (the bytes that really follow the fixed fields), archive, cut (the
\* length the whole is cut to, -1 for none), pad (zero bytes appended)]
BuildCrx(c) ==
  LET whole == c.magic \o U32(c.version) \o U32(c.lenA)
               \o (IF c.version = 2 THEN U32(c.lenB) ELSE <<>>)
               \o Zeros(c.gap) \o BuildZip(c.archive)
  IN  [data |-> IF c.cut < 0 THEN whole
                ELSE SubSeq(whole, 1, Min(c.cut, Len(whole))),
       pad |-> c.pad, base |-> 0]

Crx3(a) == [magic |-> Magic, version |-> 3, lenA |-> 0, lenB |-> 0, gap |-> 0,
            archive |-> a, cut |-> -1, pad |-> 0]

(***************************************************************************)
(* The inputs: the containers a download may deliver.                      *)
(***************************************************************************)
MaxEntries == 2

MaxRuns == 2

MaxGap == 2

\* "a", "b", "d", "d/", "d/a", "./a", "../debug.crx"
NameA == <<97>>

NameDFile == <<100>>

NameB == <<98>>

NameD == <<100, Slash>>

NameDA == <<100, Slash, 97>>

NameDotA == <<Dot, Slash, 97>>

NameUpDebug == <<Dot, Dot, Slash>> \o DebugPath[1]

\* Two payload bytes; as a deflate stream they start a block of the reserved
\* type.  Stored(d) is d as one last stored block.
Bytes78 == <<7, 8>>

Stored(d) == <<1>> \o U16(Len(d)) \o U16(65535 - Len(d)) \o d

\* A size for a 32-bit field that is far larger than any buffer here
Big == 1073741824

SeqsUpTo(S, n) == UNION {[1..m -> S] : m \in 0..n}

\* Archives as a packer writes them: files under method 0, 8 or an unknown
\* one (99), and a directory.
PoolEntries ==
  {Entry(n, 0, d) : n \in {NameA, NameDA, NameDotA, NameUpDebug}, d \in {<<>>, Bytes78}}
  \cup {Entry(NameA, 8, Stored(Bytes78)), Entry(NameDA, 99, Bytes78),
        Entry(NameD, 0, <<>>), Entry(NameD, 99, <<>>), Entry(NameDFile, 0, <<>>)}

PackedInputs == {Crx3(Archive(es)) : es \in SeqsUpTo(PoolEntries, MaxEntries)}

\* The archive the other inputs vary: "a" and "b", one payload each.
BaseEntries == <<Entry(NameA, 0, Bytes78), Entry(NameB, 0, <<9>>)>>

BaseCrx == Crx3(Archive(BaseEntries))

\* Headers: each version, length fields small and huge, and a gap that is
\* or is not what the fields say.
HeaderInputs ==
  {[BaseCrx EXCEPT !.magic = m, !.version = v, !.lenA = a, !.lenB = b, !.gap = g] :
     m \in {Magic}, v \in {2, 3, 4}, a \in {0, 1, 2, Big}, b \in {0, 1},
     g \in 0..MaxGap}
  \cup {[BaseCrx EXCEPT !.magic = m, !.version = v] :
          m \in {Magic, <<67, 114, 50, 53>>, <<80, 75, 3, 4>>},
          v \in {0, 1, 2, 3, 5}}

\* Every prefix of a version-3 container and of a version-2 one.
Crx2 == [BaseCrx EXCEPT !.version = 2, !.lenA = 1, !.lenB = 1, !.gap = 2,
                        !.archive = Archive(<<Entry(NameDA, 0, Bytes78)>>)]

CutInputs ==
  {[c EXCEPT !.cut = n] :
     c \in {BaseCrx, Crx2}, n \in 0..Len(BuildCrx(BaseCrx).data)}

\* The directory record: its count, size and offset off by a little or a
\* lot, a comment that holds the record's signature, and zero bytes after
\* the archive up to and past the search window.
RecordInputs ==
  {[BaseCrx EXCEPT !.archive.total = t, !.archive.cdSizeOff = so[1],
                   !.archive.cdOffOff = so[2]] :
     t \in {-1, 0, 1},
     so \in {<<0, 0>>, <<21, 0>>, <<22, 0>>, <<23, 0>>, <<0, 22>>, <<0, 23>>,
             <<0, 1>>, <<-92, 114>>, <<Big, 0>>, <<0, Big>>}}
  \cup {[BaseCrx EXCEPT !.archive.comment = cm, !.pad = pd] :
          cm \in {<<>>, <<1, 2, 3>>, U32(EocdSig), U32(EocdSig) \o Zeros(18)},
          pd \in {0, 1}}
  \cup {[BaseCrx EXCEPT !.pad = pd] :
          pd \in {EocdWindow - 22, EocdWindow - 21}}

Broken(e, how) ==
  CASE how = 1 -> [e EXCEPT !.lhSig = CdSig]
    [] how = 2 -> [e EXCEPT !.cdSig = LhSig]
    [] how = 3 -> [e EXCEPT !.offOff = 1]
    [] how = 4 -> [e EXCEPT !.offOff = 200]
    [] OTHER -> [e EXCEPT !.offOff = Big]

\* The first entry: its method, the sizes its two headers give, its extra
\* field, its signatures and its offset.
EntryInputs ==
  {[BaseCrx EXCEPT !.archive.entries[1] =
      [Entry(NameA, md[1], md[2]) EXCEPT !.cdComp = Len(md[2]) + cc,
                                         !.lhComp = lc, !.lhExtra = lx]] :
     md \in {<<0, Bytes78>>, <<8, Bytes78>>, <<8, Stored(Bytes78)>>, <<99, Bytes78>>},
     cc \in {-2, -1, 0, 1, 200, Big}, lc \in {0, 2, 5}, lx \in {0, 2}}
  \cup {[BaseCrx EXCEPT !.archive.entries[n] = Broken(BaseEntries[n], how)] :
          n \in {1, 2}, how \in 1..5}

\* Names that are not ASCII: two ill-formed bytes (c8, c9: both decode to
\* U+FFFD), one more (ff) and a well-formed sequence (c3 a9).
NameC8 == <<200>>

NameC9 == <<201>>

NameFF == <<255>>

NameE9 == <<195, 169>>

\* Names at the file system's limits: a segment of NameMax bytes and of one
\* more, alone, as a directory, above a file and below a directory; and
\* names of more than PathMax bytes made of segments that are not too long.
LongName(n) == [j \in 1..n |-> 97]

NameFits == LongName(NameMax)

NameLong == LongName(NameMax + 1)

NameLongDir == NameLong \o <<Slash>>

NameLongX == NameLong \o <<Slash, 120>>

NameELongDir == <<101, Slash>> \o NameLong \o <<Slash>>

RECURSIVE DeepName(_)
DeepName(n) ==
  IF n = 0 THEN <<>> ELSE LongName(250) \o <<Slash>> \o DeepName(n - 1)

NameDeepFile == DeepName(16) \o LongName(250)

NameDeepDir == DeepName(17)

\* "../../cwd/debug.crx": the raw copy, named through the directory above
\* the working directory
NameAliasDebug ==
  <<Dot, Dot, Slash, Dot, Dot, Slash>> \o Cwd[Len(Cwd)] \o <<Slash>>
  \o DebugPath[1]

\* Deflate streams: "hello" in one block of the fixed codes; "aaaa" as a
\* byte and a copy; the same with a copy from before the output's start; 22
\* bytes of a, b and c in one block of codes of its own; and "hello" cut
\* short.
DeflatedHello == <<203, 72, 205, 201, 201, 7, 0>>

DeflatedCopy == <<75, 4, 2, 0>>

DeflatedBadCopy == <<75, 4, 66, 0>>

DeflatedDynamic ==
  <<13, 193, 1, 1, 0, 0, 0, 130, 160, 173, 234, 255, 15, 5, 66, 90, 32, 215,
    139, 3>>

DeflatedCut == <<203, 72, 205>>

EdgeArchives ==
  {<<Entry(NameC8, 0, <<1>>), Entry(NameC9, 0, <<2>>)>>,
   <<Entry(NameC8, 0, <<1>>)>>,
   <<Entry(NameE9, 0, <<1>>)>>,
   <<Entry(NameFF, 99, <<1>>)>>,
   <<Entry(NameFits, 0, <<1>>)>>,
   <<Entry(NameLong, 0, <<1>>)>>,
   <<Entry(NameLongDir, 0, <<>>)>>,
   <<Entry(NameLongX, 0, <<1>>)>>,
   <<Entry(NameELongDir, 0, <<>>)>>,
   <<Entry(NameDeepFile, 0, <<1>>)>>,
   <<Entry(NameDeepDir, 0, <<>>)>>,
   <<Entry(NameAliasDebug, 0, <<1>>)>>,
   <<Entry(NameA, 8, DeflatedHello), Entry(NameB, 0, <<9>>)>>,
   <<Entry(NameA, 8, DeflatedCopy)>>,
   <<Entry(NameA, 8, DeflatedBadCopy), Entry(NameB, 0, <<9>>)>>,
   <<Entry(NameDA, 8, DeflatedDynamic)>>,
   <<Entry(NameA, 8, DeflatedCut)>>}

EdgeInputs == {Crx3(Archive(es)) : es \in EdgeArchives}

Inputs == PackedInputs \cup HeaderInputs \cup CutInputs \cup RecordInputs
          \cup EntryInputs \cup EdgeInputs

NoInput == [magic |-> <<>>]

NoBuffer == [data |-> <<>>, pad |-> 0, base |-> 0]

(***************************************************************************)
(* State.                                                                  *)
(*   pc        where main stands: "fetch", "save", "header", "eocd", "cd", *)
(*             "extract", "done"                                           *)
(*   run       the number of this run of the program (same extension id,   *)
(*             same working directory)                                     *)
(*   input     the description of the container the download delivers      *)
(*   crxBuffer, zipBuffer, zipStartOffset, eocdPos, totalCD, cdSize,       *)
(*   cdOffset, ptr, i, files, k, lhPtr, fileData : the variables of the    *)
(*             source (k counts the entries of the for-of loop)            *)
(*   readOf    the entry whose payload fileData holds, 0 before any        *)
(*   fs        the file system, by paths from the working directory        *)
(*   ops       the changes this run made to the file system, in order:     *)
(*             [entry (0: none), op, path, made (paths the call created)]  *)
(*   result    how extractCrxToFolder ended, "none" before                 *)
(*   errInfo   what the error message names, where the code words it       *)
(*   report    what main reported: "none", "complete", "extraction         *)
(*             failed", "download failed"                                   *)
(*   first     the file system and result of the first run                 *)
(***************************************************************************)
VARIABLES pc, run, input, crxBuffer, zipBuffer, zipStartOffset, eocdPos,
          totalCD, cdSize, cdOffset, ptr, i, files, k, lhPtr, fileData,
          readOf, fs, ops, result, errInfo, report, first

vars == <<pc, run, input, crxBuffer, zipBuffer, zipStartOffset, eocdPos,
          totalCD, cdSize, cdOffset, ptr, i, files, k, lhPtr, fileData,
          readOf, fs, ops, result, errInfo, report, first>>

\* the variables of extractCrxToFolder and parseZipCentralDirectory
locals == <<zipBuffer, zipStartOffset, eocdPos, totalCD, cdSize, cdOffset,
            ptr, i, files, k, lhPtr, fileData, readOf>>

NoInfo == [offset |-> -1, method |-> -1, name |-> <<>>]

Init ==
  /\ pc = "fetch"
  /\ run = 1
  /\ input = NoInput
  /\ crxBuffer = NoBuffer
  /\ zipBuffer = NoBuffer
  /\ zipStartOffset = 0
  /\ eocdPos = -1
  /\ totalCD = 0
  /\ cdSize = 0
  /\ cdOffset = 0
  /\ ptr = 0
  /\ i = 0
  /\ files = <<>>
  /\ k = 0
  /\ lhPtr = 0
  /\ fileData = <<>>
  /\ readOf = 0
  /\ fs = <<>>
  /\ ops = <<>>
  /\ result = "none"
  /\ errInfo = NoInfo
  /\ report = "none"
  /\ first = [fs |-> <<>>, result |-> "none"]

\* The paths a file-system call created.
Made(before, after) == DOMAIN after \ DOMAIN before

\* An exception leaves extractCrxToFolder: main's inner catch reports it.
Throw(kind, info) ==
  /\ result' = kind
  /\ errInfo' = info
  /\ report' = "extraction failed"
  /\ pc' = "done"

(***************************************************************************)
(* main, line 46: await fetchUrl(downloadUrl).                             *)
(***************************************************************************)
FetchOk ==
  /\ pc = "fetch"
  /\ \E c \in (IF run = 1 THEN Inputs ELSE {input}) :
       /\ input' = c
       /\ crxBuffer' = BuildCrx(c)
  /\ pc' = "save"
  /\ UNCHANGED <<run, locals, fs, ops, result, errInfo, report, first>>

\* fetchUrl rejects: main's outer catch reports it and the process exits.
FetchFail ==
  /\ pc = "fetch"
  /\ report' = "download failed"
  /\ pc' = "done"
  /\ UNCHANGED <<run, input, crxBuffer, locals, fs, ops, result, errInfo, first>>

\* main, line 50: fs.writeFileSync("debug.crx", crxBuffer).  A failure is
\* caught by the outer catch.
SaveDebug ==
  /\ pc = "save"
  /\ LET w == WriteFile(fs, DebugPath, BufferContent(crxBuffer))
     IN  IF w.ok
           THEN /\ fs' = w.fs
                /\ ops' = Append(ops, [entry |-> 0, op |-> "write",
                                       path |-> DebugPath,
                                       made |-> Made(fs, w.fs)])
                /\ pc' = "header"
                /\ UNCHANGED report
           ELSE /\ report' = "download failed"
                /\ pc' = "done"
                /\ UNCHANGED <<fs, ops>>
  /\ UNCHANGED <<run, input, crxBuffer, locals, result, errInfo, first>>

(***************************************************************************)
(* extractCrxToFolder, lines 122-159: the header.                          *)
(***************************************************************************)
\* ZipStartOffset, leaving the signature's length out for version 2
ZipStartOffsetNoSig(b) ==
  LET version == ReadUInt32LE(b, 4)
      pkLen == ReadUInt32LE(b, 8)
      sigLen == ReadUInt32LE(b, 12)
      headerSize == ReadUInt32LE(b, 8)
  IN  IF version = Oob THEN Oob
      ELSE IF version = 2
        THEN IF pkLen = Oob \/ sigLen = Oob THEN Oob ELSE 16 + pkLen
      ELSE IF version = 3 \/ version = 4
        THEN IF headerSize = Oob THEN Oob ELSE 12 + headerSize
      ELSE -2

\* lines 128-152: the offset the header gives; Oob when a field lies outside
\* the buffer, -2 for a version that is not 2, 3 or 4.
BadVersion == -2

ZipStartOffset(b) ==
  LET version == ReadUInt32LE(b, 4)
      pkLen == ReadUInt32LE(b, 8)
      sigLen == ReadUInt32LE(b, 12)
      headerSize == ReadUInt32LE(b, 8)
  IN  IF version = Oob THEN Oob
      ELSE IF version = 2
        THEN IF pkLen = Oob \/ sigLen = Oob THEN Oob ELSE 16 + pkLen + sigLen
      ELSE IF version = 3 \/ version = 4
        THEN IF headerSize = Oob THEN Oob ELSE 12 + headerSize
      ELSE BadVersion

StripHeader ==
  /\ pc = "header"
  /\ LET off == ZipStartOffset(crxBuffer)
     IN  IF ToStringUtf8(crxBuffer, 0, 4) # Magic
           THEN Throw("InvalidMagic", NoInfo) /\ UNCHANGED locals
         ELSE IF off = Oob
           THEN Throw("RangeError", NoInfo) /\ UNCHANGED locals
         ELSE IF off = BadVersion
           THEN Throw("UnsupportedVersion", NoInfo) /\ UNCHANGED locals
         ELSE IF off >= BufLen(crxBuffer)
           THEN Throw("MalformedHeader", NoInfo) /\ UNCHANGED locals
         ELSE /\ zipStartOffset' = off
              /\ zipBuffer' = SliceFrom(crxBuffer, off)
              /\ pc' = "eocd"
              /\ UNCHANGED <<eocdPos, totalCD, cdSize, cdOffset, ptr, i, files,
                             k, lhPtr, fileData, readOf, result, errInfo, report>>
  /\ UNCHANGED <<run, input, crxBuffer, fs, ops, first>>

(***************************************************************************)
(* parseZipCentralDirectory, lines 182-212: the directory record.          *)
(***************************************************************************)
\* FindEocd, scanning upward from minPos
FindEocdUpward(b) ==
  LET minPos == Max(0, BufLen(b) - EocdWindow)
      hits == {p \in minPos..(BufLen(b) - 4) : ReadUInt32LE(b, p) = EocdSig}
  IN  IF hits = {} THEN -1 ELSE SetMin(hits)

\* lines 183-190: the first position, going down from length - 4 to minPos,
\* that holds the signature; -1 when none does.
FindEocd(b) ==
  LET minPos == Max(0, BufLen(b) - EocdWindow)
      hits == {p \in minPos..(BufLen(b) - 4) : ReadUInt32LE(b, p) = EocdSig}
  IN  IF hits = {} THEN -1 ELSE SetMax(hits)

\* DirectoryInRange with >= for >
DirectoryInRangeStrict(offset, size, length) == offset + size < length

\* line 210, negated: the directory lies inside the buffer
DirectoryInRange(offset, size, length) == offset + size <= length

LocateDirectory ==
  /\ pc = "eocd"
  /\ LET pos == FindEocd(zipBuffer)
         total == ReadUInt16LE(zipBuffer, pos + 10)
         size == ReadUInt32LE(zipBuffer, pos + 12)
         offset == ReadUInt32LE(zipBuffer, pos + 16)
     IN  IF pos < 0
           THEN /\ Throw("DirectoryNotFound", NoInfo)
                /\ UNCHANGED <<eocdPos, totalCD, cdSize, cdOffset, ptr, i>>
         ELSE IF Oob \in {total, size, offset}
           THEN /\ Throw("RangeError", NoInfo)
                /\ eocdPos' = pos
                /\ UNCHANGED <<totalCD, cdSize, cdOffset, ptr, i>>
         ELSE /\ eocdPos' = pos
              /\ totalCD' = total
              /\ cdSize' = size
              /\ cdOffset' = offset
              /\ IF ~DirectoryInRange(offset, size, BufLen(zipBuffer))
                   THEN /\ Throw("DirectoryOutOfRange", NoInfo)
                        /\ UNCHANGED <<ptr, i>>
                   ELSE /\ ptr' = offset
                        /\ i' = 0
                        /\ pc' = "cd"
                        /\ UNCHANGED <<result, errInfo, report>>
  /\ UNCHANGED <<run, input, crxBuffer, zipBuffer, zipStartOffset, files, k,
                 lhPtr, fileData, readOf, fs, ops, first>>

(***************************************************************************)
(* parseZipCentralDirectory, lines 217-289: one record of the directory.   *)
(***************************************************************************)
\* The fields of the record at p, each Oob when it lies outside the buffer.
CdFields(b, p) ==
  [sig |-> ReadUInt32LE(b, p),
   verMade |-> ReadUInt16LE(b, p + 4),
   verNeed |-> ReadUInt16LE(b, p + 6),
   flags |-> ReadUInt16LE(b, p + 8),
   method |-> ReadUInt16LE(b, p + 10),
   modTime |-> ReadUInt16LE(b, p + 12),
   modDate |-> ReadUInt16LE(b, p + 14),
   crc32 |-> ReadUInt32LE(b, p + 16),
   compSize |-> ReadUInt32LE(b, p + 20),
   unCompSize |-> ReadUInt32LE(b, p + 24),
   fLen |-> ReadUInt16LE(b, p + 28),
   xLen |-> ReadUInt16LE(b, p + 30),
   cLen |-> ReadUInt16LE(b, p + 32),
   diskNo |-> ReadUInt16LE(b, p + 34),
   intAttr |-> ReadUInt16LE(b, p + 36),
   extAttr |-> ReadUInt32LE(b, p + 38),
   localHeaderOffset |-> ReadUInt32LE(b, p + 42)]

ParseEntry ==
  /\ pc = "cd"
  /\ i < totalCD
  /\ LET r == CdFields(zipBuffer, ptr)
     IN  IF r.sig = Oob
           THEN Throw("RangeError", NoInfo) /\ UNCHANGED <<ptr, i, files>>
         ELSE IF r.sig # CdSig
           THEN /\ Throw("DirectorySignatureMismatch", [NoInfo EXCEPT !.offset = ptr])
                /\ UNCHANGED <<ptr, i, files>>
         ELSE IF \E f \in DOMAIN r : r[f] = Oob
           THEN Throw("RangeError", NoInfo) /\ UNCHANGED <<ptr, i, files>>
         ELSE /\ files' = Append(files,
                   [filename |-> ToStringUtf8(zipBuffer, ptr + 46, ptr + 46 + r.fLen),
                    method |-> r.method,
                    compSize |-> r.compSize,
                    unCompSize |-> r.unCompSize,
                    flags |-> r.flags,
                    localHeaderOffset |-> r.localHeaderOffset])
              /\ ptr' = ptr + 46 + r.fLen + r.xLen + r.cLen
              /\ i' = i + 1
              /\ UNCHANGED <<pc, result, errInfo, report>>
  /\ UNCHANGED <<run, input, crxBuffer, zipBuffer, zipStartOffset, eocdPos,
                 totalCD, cdSize, cdOffset, k, lhPtr, fileData, readOf, fs, ops,
                 first>>

(***************************************************************************)
(* parseZipCentralDirectory, line 292: the output folder.                  *)
(***************************************************************************)
BeginExtract ==
  /\ pc = "cd"
  /\ i >= totalCD
  /\ LET m == MkdirP(fs, OutFolder, 0)
     IN  /\ fs' = m.fs
         /\ ops' = IF Made(fs, m.fs) = {} THEN ops
                   ELSE Append(ops, [entry |-> 0, op |-> "mkdir",
                                     path |-> OutFolder,
                                     made |-> Made(fs, m.fs)])
         /\ IF m.ok
              THEN /\ k' = 1
                   /\ pc' = "extract"
                   /\ UNCHANGED <<result, errInfo, report>>
              ELSE /\ Throw("FsError", NoInfo)
                   /\ UNCHANGED k
  /\ UNCHANGED <<run, input, crxBuffer, zipBuffer, zipStartOffset, eocdPos,
                 totalCD, cdSize, cdOffset, ptr, i, files, lhPtr, fileData, readOf,
                 first>>

(***************************************************************************)
(* parseZipCentralDirectory, lines 294-365: one entry.                     *)
(***************************************************************************)
\* The fields of the local header at p that the code reads.
LhFields(b, p) ==
  [sig |-> ReadUInt32LE(b, p),
   verNeed |-> ReadUInt16LE(b, p + 4),
   flags |-> ReadUInt16LE(b, p + 6),
   method |-> ReadUInt16LE(b, p + 8),
   fNameLen |-> ReadUInt16LE(b, p + 26),
   xLen |-> ReadUInt16LE(b, p + 28)]

\* DataStart, forgetting to skip the name and the extra field
DataStartFixed(b, p) == p + 30

\* lines 312-343: where the payload starts, given the header at p
DataStart(b, p) == p + 30 + LhFields(b, p).fNameLen + LhFields(b, p).xLen

\* line 346: zipBuffer.slice(lhPtr, lhPtr + compSize)
Payload(b, start, compSize) == SliceBytes(b, start, start + compSize)

\* lines 349-350: the parent directories of the file
MakeParents(f, outPath) == MkdirP(f, PathDirname(outPath), 0)

\* lines 298-301: a name that ends with "/" is a directory; path.join
\* leaves one separator at the end of its path.  The message of a failed
\* fs call is the call's own and names no entry.
ExtractDirectory(file) ==
  LET dirPath == PathJoin(OutFolder, file.filename)
      m == MkdirP(fs, dirPath, 1)
  IN  /\ fs' = m.fs
      /\ ops' = IF Made(fs, m.fs) = {} THEN ops
                ELSE Append(ops, [entry |-> k, op |-> "mkdir",
                                  path |-> dirPath, made |-> Made(fs, m.fs)])
      /\ IF m.ok
           THEN /\ k' = k + 1
                /\ UNCHANGED <<pc, result, errInfo, report>>
           ELSE Throw("FsError", NoInfo) /\ UNCHANGED k

\* lines 349-364, once the payload is read: the parents, then the method.
\* Only the message for an unsupported method names the entry; zlib's and
\* the fs calls' messages are their own.
ExtractFile(file, data) ==
  LET outPath == PathJoin(OutFolder, file.filename)
      m == MakeParents(fs, outPath)
      made == IF Made(fs, m.fs) = {} THEN ops
              ELSE Append(ops, [entry |-> k, op |-> "mkdir",
                                path |-> PathDirname(outPath),
                                made |-> Made(fs, m.fs)])
      inflated == InflateRaw(data)
      bytes == IF file.method = 0 THEN data ELSE inflated.data
      w == WriteFile(m.fs, outPath, AsContent(bytes))
      named == [NoInfo EXCEPT !.name = file.filename]
  IN  IF ~m.ok
        THEN /\ Throw("FsError", NoInfo)
             /\ fs' = m.fs
             /\ ops' = made
             /\ UNCHANGED k
      ELSE IF file.method \notin {0, 8}
        THEN /\ Throw("UnsupportedCompressionMethod",
                      [named EXCEPT !.method = file.method])
             /\ fs' = m.fs
             /\ ops' = made
             /\ UNCHANGED k
      ELSE IF file.method = 8 /\ inflated.status # "ok"
        THEN /\ Throw("DecompressionFailed", NoInfo)
             /\ fs' = m.fs
             /\ ops' = made
             /\ UNCHANGED k
      ELSE IF ~w.ok
        THEN /\ Throw("FsError", NoInfo)
             /\ fs' = m.fs
             /\ ops' = made
             /\ UNCHANGED k
      ELSE /\ fs' = w.fs
           /\ ops' = Append(made, [entry |-> k, op |-> "write",
                                   path |-> outPath, made |-> Made(m.fs, w.fs)])
           /\ k' = k + 1
           /\ UNCHANGED <<pc, result, errInfo, report>>

ExtractEntry ==
  /\ pc = "extract"
  /\ k <= Len(files)
  /\ LET file == files[k]
         h == LhFields(zipBuffer, file.localHeaderOffset)
         start == DataStart(zipBuffer, file.localHeaderOffset)
         data == Payload(zipBuffer, start, file.compSize)
     IN  IF EndsWithSlash(file.filename)
           THEN ExtractDirectory(file) /\ UNCHANGED <<lhPtr, fileData, readOf>>
         ELSE IF h.sig = Oob
           THEN /\ Throw("RangeError", NoInfo)
                /\ lhPtr' = file.localHeaderOffset
                /\ UNCHANGED <<fs, ops, k, fileData, readOf>>
         ELSE IF h.sig # LhSig
           THEN /\ Throw("LocalHeaderSignatureMismatch",
                         [NoInfo EXCEPT !.offset = file.localHeaderOffset,
                                        !.name = file.filename])
                /\ lhPtr' = file.localHeaderOffset
                /\ UNCHANGED <<fs, ops, k, fileData, readOf>>
         ELSE IF \E f \in DOMAIN h : h[f] = Oob
           THEN /\ Throw("RangeError", NoInfo)
                /\ lhPtr' = file.localHeaderOffset
                /\ UNCHANGED <<fs, ops, k, fileData, readOf>>
         ELSE /\ lhPtr' = start
              /\ fileData' = data
              /\ readOf' = k
              /\ ExtractFile(file, data)
  /\ UNCHANGED <<run, input, crxBuffer, zipBuffer, zipStartOffset, eocdPos,
                 totalCD, cdSize, cdOffset, ptr, i, files, first>>

\* The loop is over: extractCrxToFolder returns, main reports (line 56).
Finish ==
  /\ pc = "extract"
  /\ k > Len(files)
  /\ result' = "Success"
  /\ report' = "complete"
  /\ pc' = "done"
  /\ UNCHANGED <<run, input, crxBuffer, locals, fs, ops, errInfo, first>>

(***************************************************************************)
(* The program is run again on the container it downloaded, with the same  *)
(* extension id, in the same working directory.                            *)
(***************************************************************************)
Rerun ==
  /\ pc = "done"
  /\ run < MaxRuns
  /\ input # NoInput
  /\ run' = run + 1
  /\ first' = IF run = 1 THEN [fs |-> fs, result |-> result] ELSE first
  /\ pc' = "fetch"
  /\ crxBuffer' = NoBuffer
  /\ zipBuffer' = NoBuffer
  /\ zipStartOffset' = 0
  /\ eocdPos' = -1
  /\ totalCD' = 0
  /\ cdSize' = 0
  /\ cdOffset' = 0
  /\ ptr' = 0
  /\ i' = 0
  /\ files' = <<>>
  /\ k' = 0
  /\ lhPtr' = 0
  /\ fileData' = <<>>
  /\ readOf' = 0
  /\ ops' = <<>>
  /\ result' = "none"
  /\ errInfo' = NoInfo
  /\ report' = "none"
  /\ UNCHANGED <<input, fs>>

Next ==
  \/ FetchOk
  \/ FetchFail
  \/ SaveDebug
  \/ StripHeader
  \/ LocateDirectory
  \/ ParseEntry
  \/ BeginExtract
  \/ ExtractEntry
  \/ Finish
  \/ Rerun

Spec == Init /\ [][Next]_vars

(***************************************************************************)
(* What the claims speak of.                                               *)
(***************************************************************************)
\* The failures the error taxonomy names.
TypedFailures ==
  {"InvalidMagic", "UnsupportedVersion", "MalformedHeader", "DirectoryNotFound",
   "DirectoryOutOfRange", "DirectorySignatureMismatch",
   "LocalHeaderSignatureMismatch", "UnsupportedCompressionMethod",
   "DecompressionFailed"}

HeaderFailures == {"InvalidMagic", "UnsupportedVersion", "MalformedHeader"}

\* The download delivered a buffer, and main is through with it.
RunEnded == pc = "done" /\ report # "download failed"

\* The header was accepted: the view exists (its base is the offset, 12 at
\* least).
HeaderPassed == zipBuffer # NoBuffer

\* The only change to the file system so far is the raw copy.
OnlyRawCopy == \A n \in 1..Len(ops) : ops[n].path = DebugPath /\ ops[n].entry = 0

(***************************************************************************)
(* C2.  For every buffer that passes header validation the archive starts  *)
(* at 16 + pkLen + sigLen (version 2) or 12 + headerSize (version 3 or 4), *)
(* the fields being the little-endian values the container was written     *)
(* with, and the view handed to parseZipCentralDirectory is exactly the    *)
(* bytes from that offset to the end of the input.                         *)
(***************************************************************************)
C2_ArchiveStartOffset ==
  HeaderPassed =>
    /\ input.version \in {2, 3, 4}
    /\ zipStartOffset = IF input.version = 2 THEN 16 + input.lenA + input.lenB
                        ELSE 12 + input.lenA
    /\ zipStartOffset < BufLen(crxBuffer)
    /\ BufLen(zipBuffer) = BufLen(crxBuffer) - zipStartOffset
    /\ pc = "eocd" =>
         \A j \in 0..(BufLen(zipBuffer) - 1) :
           ByteAt(zipBuffer, j) = ByteAt(crxBuffer, zipStartOffset + j)

\* A version-2 container with a key and a signature passed the header.
C2_Witness ==
  /\ pc = "eocd"
  /\ input.version = 2
  /\ input.lenA > 0
  /\ input.lenB > 0
  /\ zipStartOffset = 18

(***************************************************************************)
(* C3.  Every buffer whose first four bytes are not "Cr24" fails with      *)
(* InvalidMagic; otherwise one whose version is not 2, 3 or 4 fails with   *)
(* UnsupportedVersion; otherwise one whose header reaches the end of the   *)
(* buffer or past it fails with MalformedHeader; and a run that fails so   *)
(* never calls the archive extractor.  The header of a buffer that is too  *)
(* short to hold its length fields reaches at least to the end of the      *)
(* fixed fields (16 bytes for version 2, 12 for 3 and 4).                  *)
(***************************************************************************)
HeaderReach(b) ==
  LET version == ReadUInt32LE(b, 4)
  IN  IF ZipStartOffset(b) # Oob THEN ZipStartOffset(b)
      ELSE IF version = 2 THEN 16 ELSE 12

C3_HeaderClassification ==
  RunEnded =>
    LET magicOk == SliceBytes(crxBuffer, 0, 4) = Magic
        version == ReadUInt32LE(crxBuffer, 4)
    IN  /\ ~magicOk => result = "InvalidMagic"
        /\ magicOk /\ version # Oob /\ version \notin {2, 3, 4}
             => result = "UnsupportedVersion"
        /\ magicOk /\ version \in {2, 3, 4}
             /\ HeaderReach(crxBuffer) >= BufLen(crxBuffer)
             => result = "MalformedHeader"
        /\ result \in HeaderFailures => ~HeaderPassed /\ OnlyRawCopy

(***************************************************************************)
(* C4.  Whatever the bytes of the buffer, extractCrxToFolder ends in       *)
(* success or in one of the nine typed failures, never in another error.   *)
(***************************************************************************)
C4_OnlyTypedFailures ==
  RunEnded => result \in TypedFailures \cup {"Success"}

(***************************************************************************)
(* C5.  Once the directory record is found and read, extraction fails with *)
(* DirectoryOutOfRange exactly when directoryOffset + directorySize is     *)
(* greater than the length of the archive view: at equality it goes on,    *)
(* and when it fails no entry has been parsed and nothing written.  The    *)
(* offset and size are the values the record was written with.             *)
(***************************************************************************)
RecordRead == eocdPos >= 0 /\ eocdPos + 20 <= BufLen(zipBuffer)

\* The record the code found is the one the archive was written with.
RecordIntact == input.cut < 0 /\ input.archive.comment = <<>>

C5_DirectoryRange ==
  RecordRead =>
    /\ result = "DirectoryOutOfRange" <=> cdOffset + cdSize > BufLen(zipBuffer)
    /\ result = "DirectoryOutOfRange"
         => pc = "done" /\ files = <<>> /\ i = 0 /\ OnlyRawCopy
    /\ cdOffset + cdSize <= BufLen(zipBuffer) => pc \in {"cd", "extract", "done"}
    /\ RecordIntact =>
         /\ cdOffset = Min(Sat, Len(LocalPart(input.archive.entries, 1))
                                  + input.archive.cdOffOff)
         /\ cdSize = Min(Sat, Len(CentralPart(input.archive.entries, 1, 0))
                                + input.archive.cdSizeOff)

\* The directory ends one byte past the view, and extraction failed so.
C5_Witness ==
  /\ RecordRead
  /\ cdOffset + cdSize = BufLen(zipBuffer) + 1
  /\ result = "DirectoryOutOfRange"

(***************************************************************************)
(* C1.  Round trip.  A well-formed archive is one a packer writes: a       *)
(* header whose lengths are true, nothing cut off, a record whose count,   *)
(* size and offset are true, entries under method 0 whose directory size   *)
(* is their payload's and whose signatures and offsets are right.  The     *)
(* archive's comment may hold any bytes, and zero bytes may follow the     *)
(* archive.                                                                *)
(***************************************************************************)
WellFormed(c) ==
  /\ c.magic = Magic
  /\ c.version \in {2, 3, 4}
  /\ c.gap = IF c.version = 2 THEN c.lenA + c.lenB ELSE c.lenA
  /\ c.cut < 0
  /\ c.archive.total = 0
  /\ c.archive.cdSizeOff = 0
  /\ c.archive.cdOffOff = 0
  /\ \A n \in 1..Len(c.archive.entries) :
       LET e == c.archive.entries[n]
       IN  /\ e.method = 0
           /\ e.cdComp = Len(e.data)
           /\ e.lhSig = LhSig
           /\ e.cdSig = CdSig
           /\ e.offOff = 0

\* The bytes of the archive from its end record on (the zero bytes that may
\* follow hold no signature), and whether the record's signature is the
\* last one in the archive: no other one stands in the record's fields or
\* in the comment.
RecordBytes(a) ==
  EocdRecord(a, Len(LocalPart(a.entries, 1)), Len(CentralPart(a.entries, 1, 0)))

RecordIsLast(a) ==
  \A j \in 2..(Len(RecordBytes(a)) - 3) :
    SubSeq(RecordBytes(a), j, j + 3) # U32(EocdSig)

\* The name the code reads for an entry, and the node it names.
EntryName(e) == Utf8From(e.name, 1)

EntryPath(e) == CanonicalPath(PathJoin(OutFolder, EntryName(e)))

IsUnder(folder, p) ==
  Len(p) > Len(folder) /\ SubSeq(p, 1, Len(folder)) = folder

\* Every file entry is a file of its payload, every directory entry a
\* directory, and every file under the destination is an entry's.
RoundTrip(es) ==
  /\ \A n \in 1..Len(es) :
       IF EndsWithSlash(EntryName(es[n]))
         THEN IsDir(fs, EntryPath(es[n]))
         ELSE /\ EntryPath(es[n]) \in DOMAIN fs
              /\ fs[EntryPath(es[n])] = FileNode(AsContent(es[n].data))
  /\ \A p \in DOMAIN fs :
       IsFile(fs, p) /\ IsUnder(OutFolder, p)
         => \E n \in 1..Len(es) :
              ~EndsWithSlash(EntryName(es[n])) /\ EntryPath(es[n]) = p

DistinctNames(es) ==
  \A m, n \in 1..Len(es) : m # n => es[m].name # es[n].name

DistinctPaths(es) ==
  \A m, n \in 1..Len(es) : m # n => EntryPath(es[m]) # EntryPath(es[n])

\* C1 as claimed: for every well-formed archive whose entries have distinct
\* names, after a successful extraction every file entry is a file holding
\* its payload, every directory entry is a directory, and the destination
\* holds no file that no entry names.
C1_RoundTripDistinctNames ==
  RunEnded /\ result = "Success" /\ WellFormed(input)
    /\ DistinctNames(input.archive.entries)
    => RoundTrip(input.archive.entries)

\* C1 as amended: the same for every well-formed archive in which the end
\* record's signature is the last one (none in the record's fields or in
\* the comment), and whose entries' names, decoded and joined to the
\* destination, are paths to distinct nodes ("a" and "./a" are distinct
\* names of one file, and so are the bytes c8 and c9, which both decode to
\* U+FFFD; the file ends up with the later entry's payload).
C1_RoundTripDistinctPaths ==
  RunEnded /\ result = "Success" /\ WellFormed(input)
    /\ RecordIsLast(input.archive)
    /\ DistinctPaths(input.archive.entries)
    => RoundTrip(input.archive.entries)

\* A comment that holds the record's signature was taken for the record:
\* the run succeeded on a well-formed archive of two entries and extracted
\* neither.
C1_CommentTaken ==
  /\ RunEnded /\ result = "Success" /\ WellFormed(input)
  /\ ~RecordIsLast(input.archive)
  /\ DistinctPaths(input.archive.entries)
  /\ Len(input.archive.entries) = 2
  /\ files = <<>>

\* A directory entry and a nested file with a payload were extracted.
C1_Witness ==
  /\ RunEnded /\ result = "Success" /\ WellFormed(input)
  /\ RecordIsLast(input.archive)
  /\ DistinctPaths(input.archive.entries)
  /\ \E m, n \in 1..Len(input.archive.entries) :
       /\ input.archive.entries[m].name = NameD
       /\ input.archive.entries[n].name = NameDA
       /\ input.archive.entries[n].data = Bytes78
       /\ IsFile(fs, EntryPath(input.archive.entries[n]))

(***************************************************************************)
(* C6.  Entries are materialized in directory order, and when the loop     *)
(* comes to an entry whose method is neither 0 nor 8 (the first such       *)
(* entry, at position n), extraction fails with                            *)
(* UnsupportedCompressionMethod naming that entry's method and name, and   *)
(* neither that entry nor a later one has written a file or created a      *)
(* directory.                                                              *)
(***************************************************************************)
Unsupported(n) == files[n].method \notin {0, 8}

C6_AbortOnUnsupportedMethod ==
  RunEnded /\ k >= 1 /\ (\E n \in 1..Len(files) : n <= k /\ Unsupported(n))
    => LET n == SetMin({m \in 1..Len(files) : Unsupported(m)})
       IN  /\ result = "UnsupportedCompressionMethod"
           /\ errInfo.method = files[n].method
           /\ errInfo.name = files[n].filename
           /\ \A o \in 1..Len(ops) : ops[o].entry < n

(***************************************************************************)
(* C7.  Idempotence: when extraction of an archive succeeded, a second     *)
(* run on the same archive into the same destination succeeds too and      *)
(* leaves every file and directory as the first run left it.               *)
(***************************************************************************)
C7_Idempotent ==
  run >= 2 /\ RunEnded /\ first.result = "Success"
    => result = "Success" /\ fs = first.fs

\* A second run overwrote a file the first run had written.
C7_Witness ==
  /\ run = 2 /\ RunEnded /\ first.result = "Success" /\ result = "Success"
  /\ \E o \in 1..Len(ops) :
       /\ ops[o].op = "write"
       /\ ops[o].entry > 0
       /\ IsFile(first.fs, ops[o].path)

(***************************************************************************)
(* C8.  The payload read for an entry whose local header's signature       *)
(* matches is exactly compressedSize bytes long, compressedSize being the  *)
(* directory's value, and starts right after the local header's name and   *)
(* extra field, whatever the local header's size fields hold and whatever  *)
(* compressedSize is.                                                      *)
(***************************************************************************)
C8_PayloadIsCompressedSize ==
  readOf > 0 =>
    LET f == files[readOf]
        start == f.localHeaderOffset + 30
                 + ReadUInt16LE(zipBuffer, f.localHeaderOffset + 26)
                 + ReadUInt16LE(zipBuffer, f.localHeaderOffset + 28)
    IN  /\ Len(fileData) = f.compSize
        /\ \A j \in 1..Len(fileData) :
             fileData[j] = ByteAt(zipBuffer, start + j - 1)

(***************************************************************************)
(* C9.  The record's position is the greatest index in                     *)
(* max(0, length - 65557) .. length - 4 at which the four bytes of the     *)
(* signature 0x06054b50 stand; when there is none (the view is shorter     *)
(* than 4 bytes, or the signature stands only before the window)           *)
(* extraction fails with DirectoryNotFound and parses nothing.             *)
(***************************************************************************)
SigAt(b, p) ==
  /\ ByteAt(b, p) = 80
  /\ ByteAt(b, p + 1) = 75
  /\ ByteAt(b, p + 2) = 5
  /\ ByteAt(b, p + 3) = 6

SearchWindow(b) == Max(0, BufLen(b) - 65557)..(BufLen(b) - 4)

\* LocateDirectory has just run.
JustLocated == HeaderPassed /\ pc \in {"cd", "done"} /\ i = 0 /\ files = <<>>

C9_LastSignatureInWindow ==
  JustLocated =>
    IF \E p \in SearchWindow(zipBuffer) : SigAt(zipBuffer, p)
      THEN /\ eocdPos \in SearchWindow(zipBuffer)
           /\ SigAt(zipBuffer, eocdPos)
           /\ \A p \in (eocdPos + 1)..(BufLen(zipBuffer) - 4) : ~SigAt(zipBuffer, p)
           /\ result # "DirectoryNotFound"
      ELSE /\ eocdPos = -1
           /\ result = "DirectoryNotFound"
           /\ pc = "done"
           /\ OnlyRawCopy

\* The signature stands twice in the window, and the later one was taken.
C9_Witness ==
  /\ pc = "cd" /\ i = 0
  /\ \E p \in SearchWindow(zipBuffer) : p < eocdPos /\ SigAt(zipBuffer, p)

(***************************************************************************)
(* C10.  In every run of main: when the download succeeds the raw bytes    *)
(* are written to debug.crx before anything else is written, and debug.crx *)
(* holds them when the run ends, whether extraction succeeded or failed;   *)
(* when the download fails nothing is written, extraction is not           *)
(* attempted, and the failure is reported as a download failure.           *)
(***************************************************************************)
C10_RawCopyKept ==
  pc = "done" =>
    IF report = "download failed"
      THEN ops = <<>> /\ result = "none"
      ELSE /\ report \in {"complete", "extraction failed"}
           /\ Len(ops) >= 1
           /\ ops[1].op = "write" /\ ops[1].path = DebugPath /\ ops[1].entry = 0
           /\ DebugPath \in DOMAIN fs
           /\ fs[DebugPath] = FileNode(BufferContent(crxBuffer))
====
